---- MODULE Spec2Model ----
(***************************************************************************)
(* Model of etf_mapper/br_loader.py (class ISharesLoader).                 *)
(*                                                                         *)
(* Text is modelled as a sequence of one-character strings, so that the    *)
(* substring test, the line splitting and the comma splitting of the code  *)
(* are computed and not assumed.  A value that is not text (Python's None) *)
(* is the one-element sequence None, which no text equals.                 *)
(***************************************************************************)
EXTENDS Integers, Sequences, FiniteSets

VARIABLES
    listing_exists,   \* data/product_screener_<country>.csv is readable
    us_frame,         \* the product listing, a sequence of [Ticker, URL]
    site,             \* what the provider serves for each row: [page, body]
    download_date,    \* dt.date.today(), read once before the loop
    pc,               \* position in download_compositions_of_country
    product_nr,       \* index of the product being handled (1-based)
    composition_link, \* result of get_composition_download_link for the product
    content,          \* response body of the last HTTP GET still being handled
    exc,              \* exception propagating out of the loop, "none" if none
    outcome,          \* what the caller of the decorated method observes
    log,              \* loguru records, in order
    requests,         \* HTTP GETs issued, in order
    dir_exists,       \* downloads/compositions/<date>/ exists
    files,            \* output files written: [name, by, table]
    page,             \* a page handed to the link scan on its own
    link_result,      \* what the scan made of it
    payload,          \* a response body handed to the payload parsing on its own
    parse_result      \* what the parsing made of it

vars == <<listing_exists, us_frame, site, download_date, pc, product_nr,
          composition_link, content, exc, outcome, log, requests, dir_exists,
          files, page, link_result, payload,
          parse_result>>

-----------------------------------------------------------------------------
(* Bounds of the model.                                                    *)

\* most lines a payload has after its header line, the trailer not counted
MaxData == 2
\* most anchor elements of a page
MaxAnchors == 3
\* most products of a listing
MaxProducts == 2

-----------------------------------------------------------------------------
(* Text helpers.                                                           *)

None == <<"<None>">>
NL == "\n"
BadByte == "<0xFF>"

\* the literal 'csv' of line 132
Csv == <<"c", "s", "v">>

\* the literal prefix of line 138
Domain == <<"h","t","t","p","s",":","/","/","w","w","w",".","i","s","h","a",
            "r","e","s",".","c","o","m">>

\* Python's  sub in s  for two texts
Contains(s, sub) ==
    \E i \in 1..(Len(s) - Len(sub) + 1) :
        SubSeq(s, i, i + Len(sub) - 1) = sub

StartsWith(s, prefix) ==
    /\ Len(s) >= Len(prefix)
    /\ SubSeq(s, 1, Len(prefix)) = prefix

Max(a, b) == IF a >= b THEN a ELSE b

-----------------------------------------------------------------------------
(* get_composition_download_link, lines 113-140.                           *)
(* A parsed page is the sequence of its anchor elements in document order; *)
(* an anchor is [has_href, href].                                          *)

\* link.get('href'), line 131: the attribute, or None when it is missing
TagGet(link) == IF link.has_href THEN link.href ELSE None

\* 'csv' in current_link, line 132: "TypeError" when current_link is None
CsvIn(current_link) ==
    IF current_link = None THEN "TypeError"
    ELSE IF Contains(current_link, Csv) THEN "yes" ELSE "no"

\* truth value of a text or None (lines 73 and 138)
Truthy(x) == x # None /\ x # <<>>

RECURSIVE ScanKeepGoing(_, _, _, _)
\* the loop without its break: the last matching anchor wins
ScanKeepGoing(anchors, i, actual_link, warnings) ==
    IF i > Len(anchors) THEN [actual_link |-> actual_link, warnings |-> warnings]
    ELSE LET t == CsvIn(TagGet(anchors[i])) IN
         IF t = "TypeError"
         THEN ScanKeepGoing(anchors, i + 1, actual_link, Append(warnings, t))
         ELSE IF t = "yes"
         THEN ScanKeepGoing(anchors, i + 1, TagGet(anchors[i]), warnings)
         ELSE ScanKeepGoing(anchors, i + 1, actual_link, warnings)

\* the loop with the try around the whole loop: a failing anchor ends the scan
ScanStopOnError(anchors, i, actual_link, warnings) ==
    LET failing == {j \in i..Len(anchors) : CsvIn(TagGet(anchors[j])) = "TypeError"}
        hits == {j \in i..Len(anchors) : CsvIn(TagGet(anchors[j])) = "yes"}
        firstFail == CHOOSE j \in failing : \A k \in failing : j <= k
        firstHit == CHOOSE j \in hits : \A k \in hits : j <= k
    IN  IF hits # {} /\ (failing = {} \/ firstHit < firstFail)
        THEN [actual_link |-> TagGet(anchors[firstHit]), warnings |-> warnings]
        ELSE IF failing # {}
        THEN [actual_link |-> actual_link, warnings |-> Append(warnings, "TypeError")]
        ELSE [actual_link |-> actual_link, warnings |-> warnings]

RECURSIVE ScanAnchors(_, _, _, _)
\* the for loop of lines 129-136, from anchor i on
ScanAnchors(anchors, i, actual_link, warnings) ==
    IF i > Len(anchors) THEN [actual_link |-> actual_link, warnings |-> warnings]
    ELSE LET t == CsvIn(TagGet(anchors[i])) IN
         IF t = "TypeError"
         THEN ScanAnchors(anchors, i + 1, actual_link, Append(warnings, t))
         ELSE IF t = "yes"
         THEN [actual_link |-> TagGet(anchors[i]), warnings |-> warnings]
         ELSE ScanAnchors(anchors, i + 1, actual_link, warnings)

\* line 138
BuildDownloadLink(actual_link) ==
    IF Truthy(actual_link) THEN Domain \o actual_link ELSE None

\* lines 126-140 on the parsed page: the returned link and the warnings logged
GetCompositionDownloadLink(soup) ==
    LET scan == ScanAnchors(soup, 1, None, <<>>)
    IN  [download_link |-> BuildDownloadLink(scan.actual_link),
         warnings |-> scan.warnings]

-----------------------------------------------------------------------------
(* download_composition, lines 102-111.                                    *)

\* position of the header row, line 109
HeaderIndex == 9
\* position of the first data row, line 109
DataStart == 10

\* bytes.decode('utf-8'), line 105: ASCII bytes decode to themselves, an
\* invalid byte raises UnicodeDecodeError (a ValueError)
Decode(bytes) ==
    IF \E i \in 1..Len(bytes) : bytes[i] = BadByte
    THEN [exc |-> "UnicodeDecodeError", text |-> <<>>]
    ELSE [exc |-> "none", text |-> bytes]

RECURSIVE SplitFrom(_, _, _, _)
SplitFrom(s, i, cur, acc) ==
    IF i > Len(s) THEN (IF cur = <<>> THEN acc ELSE Append(acc, cur))
    ELSE IF s[i] = NL THEN SplitFrom(s, i + 1, <<>>, Append(acc, cur))
    ELSE SplitFrom(s, i + 1, Append(cur, s[i]), acc)

\* str.splitlines(), line 106: no empty last line after a final line break
SplitLines(s) == SplitFrom(s, 1, <<>>, <<>>)

RECURSIVE FieldsFrom(_, _, _, _)
FieldsFrom(line, i, cur, acc) ==
    IF i > Len(line) THEN Append(acc, cur)
    ELSE IF line[i] = "," THEN FieldsFrom(line, i + 1, <<>>, Append(acc, cur))
    ELSE FieldsFrom(line, i + 1, Append(cur, line[i]), acc)

\* one row of csv.reader(..., delimiter=','), line 106, for unquoted text:
\* an empty line is a row of no fields
CsvRow(line) == IF line = <<>> THEN <<>> ELSE FieldsFrom(line, 1, <<>>, <<>>)

\* list(csv.reader(lines)), lines 106-107
CsvReader(lines) == [i \in 1..Len(lines) |-> CsvRow(lines[i])]

\* my_list[10:], the slice without its end
DataRowsToEnd(my_list) ==
    IF Len(my_list) <= DataStart THEN <<>>
    ELSE SubSeq(my_list, DataStart + 1, Len(my_list))

\* my_list[10:-1], line 109 (rows are 1-based here, 0-based in the code)
DataRows(my_list) ==
    IF Len(my_list) - 1 <= DataStart THEN <<>>
    ELSE SubSeq(my_list, DataStart + 1, Len(my_list) - 1)

\* a header lookup that yields no columns instead of failing
HeaderRowOrEmpty(my_list) ==
    IF Len(my_list) <= HeaderIndex THEN [exc |-> "none", row |-> <<>>]
    ELSE [exc |-> "none", row |-> my_list[HeaderIndex + 1]]

\* my_list[9], line 109: IndexError when the list has fewer than 10 rows
HeaderRow(my_list) ==
    IF Len(my_list) <= HeaderIndex THEN [exc |-> "IndexError", row |-> <<>>]
    ELSE [exc |-> "none", row |-> my_list[HeaderIndex + 1]]

RECURSIVE MaxWidth(_, _)
MaxWidth(rows, i) ==
    IF i > Len(rows) THEN 0 ELSE Max(Len(rows[i]), MaxWidth(rows, i + 1))

PadRow(row, width) ==
    [j \in 1..width |-> IF j <= Len(row) THEN row[j] ELSE None]

\* pd.DataFrame(data, columns=columns), line 109, for a list of lists: no rows
\* give an empty frame; otherwise the rows are padded with None to the widest
\* row, and a width other than the number of columns raises ValueError
DataFrame(data, columns) ==
    IF data = <<>>
    THEN [exc |-> "none", columns |-> columns, rows |-> <<>>]
    ELSE IF MaxWidth(data, 1) # Len(columns)
    THEN [exc |-> "ValueError", columns |-> <<>>, rows |-> <<>>]
    ELSE [exc |-> "none", columns |-> columns,
          rows |-> [i \in 1..Len(data) |-> PadRow(data[i], Len(columns))]]

\* lines 105-111 on the response body: the table, or the exception raised
DownloadComposition(body) ==
    LET decoded == Decode(body) IN
    IF decoded.exc # "none"
    THEN [exc |-> decoded.exc, columns |-> <<>>, rows |-> <<>>]
    ELSE LET my_list == CsvReader(SplitLines(decoded.text))
             data == DataRows(my_list)
             header == HeaderRow(my_list)
         IN  IF header.exc # "none"
             THEN [exc |-> header.exc, columns |-> <<>>, rows |-> <<>>]
             ELSE DataFrame(data, header.row)

-----------------------------------------------------------------------------
(* Inputs.                                                                 *)

A(href) == [has_href |-> TRUE, href |-> href]
NoHref == [has_href |-> FALSE, href |-> <<>>]

HrefRelCsv == <<"/", "a", ".", "c", "s", "v">>
HrefRelCsv2 == <<"/", "b", "?", "t", "=", "c", "s", "v", "&", "x">>
HrefHtml == <<"/", "a", ".", "h", "t", "m", "l">>
HrefUpper == <<"/", "a", ".", "C", "S", "V">>
HrefNear == <<"/", "c", "s", "/", "v">>
HrefAbsCsv == Domain \o HrefRelCsv

\* the anchor elements a page is made of
Anchors ==
    {NoHref, A(<<>>), A(HrefRelCsv), A(HrefRelCsv2), A(HrefHtml), A(HrefUpper),
     A(HrefNear), A(HrefAbsCsv)}

RECURSIVE SeqsUpTo(_, _)
\* all sequences over S of length at most n
SeqsUpTo(S, n) ==
    IF n = 0 THEN {<<>>}
    ELSE LET shorter == SeqsUpTo(S, n - 1)
         IN  shorter \cup {Append(q, x) : q \in {r \in shorter : Len(r) = n - 1}, x \in S}

Pages == SeqsUpTo(Anchors, MaxAnchors)

\* the lines a payload is made of: 0, 1, 2 (twice) and 3 fields
LineBlank == <<>>
Line1 == <<"a">>
Line2 == <<"a", ",", "b">>
Line2b == <<"c", ",", "d">>
Line3 == <<",", "b", ",">>
Lines == {LineBlank, Line1, Line2, Line2b, Line3}

RECURSIVE Join(_, _)
\* the lines from i on, each but the last followed by a line break
Join(lines, i) ==
    IF i > Len(lines) THEN <<>>
    ELSE IF i = Len(lines) THEN lines[i]
    ELSE lines[i] \o <<NL>> \o Join(lines, i + 1)

\* a response body of n lines: lines 1..9 are pre, line 10 is hdr, the lines
\* after it are tail; final tells whether a line break ends the body
Body(n, pre, hdr, tail, final) ==
    LET lines == [i \in 1..n |->
                    IF i <= HeaderIndex THEN pre
                    ELSE IF i = HeaderIndex + 1 THEN hdr
                    ELSE tail[i - DataStart]]
    IN  Join(lines, 1) \o (IF final /\ n > 0 THEN <<NL>> ELSE <<>>)

\* most lines of a payload: preamble, header, data and trailer
MaxLines == DataStart + MaxData + 1

TailsOf(n) == IF n <= DataStart THEN {<<>>} ELSE [1..(n - DataStart) -> Lines]

Payloads ==
    UNION {{Body(n, pre, hdr, tail, final) :
               pre \in {Line1, Line2}, hdr \in Lines, tail \in TailsOf(n),
               final \in BOOLEAN} : n \in 0..MaxLines}
    \cup {<<BadByte>>, Body(MaxLines, Line1, Line2, [i \in 1..(MaxData + 1) |-> Line2], TRUE)
                          \o <<BadByte>>}

-----------------------------------------------------------------------------
(* download_compositions_of_country, lines 56-87.                          *)

\* rows of data/product_screener_<country>.csv; the ticker identifies the
\* product, so no ticker occurs twice
Catalog ==
    <<[Ticker |-> "ABC", URL |-> "https://www.ishares.com/us/products/1/abc"],
      [Ticker |-> "XYZ", URL |-> "https://www.ishares.com/us/products/2/xyz"],
      [Ticker |-> "QQQ", URL |-> "https://www.ishares.com/us/products/3/qqq"],
      [Ticker |-> "IVV", URL |-> "https://www.ishares.com/us/products/4/ivv"]>>

Listings ==
    {SubSeq(Catalog, 1, n) : n \in 0..(IF MaxProducts < Len(Catalog)
                                        THEN MaxProducts ELSE Len(Catalog))}

Today == "2026-10-29"

\* pages the provider answers a product page request with
BatchPages ==
    {<<>>,
     <<NoHref, A(HrefHtml)>>,
     <<A(HrefHtml), A(HrefRelCsv)>>,
     <<NoHref, A(HrefRelCsv2), A(HrefRelCsv)>>}

\* bodies the provider answers a download request with: 5 lines, 10 lines,
\* a full layout with one data row, one with a data row wider than the
\* header, one that is not UTF-8
BatchPayloads ==
    {Body(5, Line1, Line2, <<>>, TRUE),
     Body(10, Line1, Line2, <<>>, TRUE),
     Body(12, Line1, Line2, <<Line2, Line1>>, TRUE),
     Body(12, Line1, Line2, <<Line3, Line1>>, TRUE),
     <<BadByte>>}

\* an except clause that catches every Exception
IsException(e) == e # "none"

\* except ValueError, line 82: UnicodeDecodeError is a subclass of ValueError
IsValueError(e) == e \in {"ValueError", "UnicodeDecodeError"}

\* a decorator that logs and raises again
LoggerReraise(e) == FALSE

\* @logger.catch(), line 56: every Exception raised by the body is logged
\* and swallowed
LoggerCatch(e) ==
    e \in {"FileNotFoundError", "ConnectionError", "IndexError", "OSError",
           "ValueError", "UnicodeDecodeError", "TypeError"}

\* a test that always takes the download branch
LinkAlways(link) == TRUE

\* if composition_link:, line 73
LinkFound(link) == Truthy(link)

\* f'{ticker}_holdings_{download_date}.csv' under downloads/compositions/<date>/
FileName(ticker, date) == [dir |-> date, ticker |-> ticker, date |-> date]

Info(i, msg) == [level |-> "INFO", msg |-> msg, product_nr |-> i]
Warning(i, msg) == [level |-> "WARNING", msg |-> msg, product_nr |-> i]
Error(i, msg) == [level |-> "ERROR", msg |-> msg, product_nr |-> i]

Request(kind, i, url, failed) ==
    [kind |-> kind, product_nr |-> i, url |-> url, failed |-> failed]

NoTable == [exc |-> "none", columns |-> <<>>, rows |-> <<>>]
NoLinkResult == [done |-> FALSE, download_link |-> None, warnings |-> <<>>]
NoParseResult == [done |-> FALSE, table |-> NoTable]

\* exception e leaves the body of the method: the decorator decides what the
\* caller sees
Propagate(e, entries) ==
    /\ exc' = e
    /\ pc' = "exit"
    /\ IF LoggerCatch(e)
       THEN /\ outcome' = "returned"
            /\ log' = log \o entries \o <<Error(product_nr, e)>>
       ELSE /\ outcome' = "raised"
            /\ log' = log \o entries

PureUnchanged == UNCHANGED <<page, link_result, payload, parse_result>>

\* lines 66-67
Load ==
    /\ pc = "call"
    /\ IF listing_exists
       THEN /\ pc' = "for"
            /\ download_date' = Today
            /\ UNCHANGED <<exc, outcome, log>>
       ELSE /\ Propagate("FileNotFoundError", <<>>)
            /\ UNCHANGED download_date
    /\ UNCHANGED <<listing_exists, us_frame, site, product_nr, composition_link,
                   content, requests, dir_exists, files>>
    /\ PureUnchanged

\* line 68-71: the next row of the listing, or the end of the loop
ForNext ==
    /\ pc = "for"
    /\ IF product_nr < Len(us_frame)
       THEN /\ product_nr' = product_nr + 1
            /\ log' = Append(log, Info(product_nr + 1, "Downloading compo"))
            /\ pc' = "page"
            /\ UNCHANGED outcome
       ELSE /\ pc' = "exit"
            /\ outcome' = "returned"
            /\ UNCHANGED <<product_nr, log>>
    /\ UNCHANGED <<listing_exists, us_frame, site, download_date, composition_link,
                   content, exc, requests, dir_exists, files>>
    /\ PureUnchanged

\* line 72 with lines 125-140: the page request fails
PageFetchFails ==
    /\ pc = "page"
    /\ requests' = Append(requests,
          Request("page", product_nr, us_frame[product_nr].URL, TRUE))
    /\ Propagate("ConnectionError", <<>>)
    /\ UNCHANGED <<listing_exists, us_frame, site, download_date, product_nr,
                   composition_link, content, dir_exists, files>>
    /\ PureUnchanged

\* line 72 with lines 125-140: the page arrives and is scanned
PageFetch ==
    /\ pc = "page"
    /\ LET r == GetCompositionDownloadLink(site[product_nr].page) IN
          /\ requests' = Append(requests,
                Request("page", product_nr, us_frame[product_nr].URL, FALSE))
          /\ composition_link' = r.download_link
          /\ log' = log \o [k \in 1..Len(r.warnings) |->
                              Warning(product_nr, r.warnings[k])]
    /\ pc' = "if"
    /\ UNCHANGED <<listing_exists, us_frame, site, download_date, product_nr,
                   content, exc, outcome, dir_exists, files>>
    /\ PureUnchanged

\* lines 73 and 85-87
CheckLink ==
    /\ pc = "if"
    /\ IF LinkFound(composition_link)
       THEN /\ pc' = "file"
            /\ UNCHANGED log
       ELSE /\ pc' = "for"
            /\ log' = Append(log, Warning(product_nr, "No composition found"))
    /\ UNCHANGED <<listing_exists, us_frame, site, download_date, product_nr,
                   composition_link, content, exc, outcome, requests,
                   dir_exists, files>>
    /\ PureUnchanged

\* line 75 with lines 102-103: the download request fails inside the try
FileFetchFails ==
    /\ pc = "file"
    /\ requests' = Append(requests,
          Request("file", product_nr, composition_link, TRUE))
    /\ IF IsValueError("ConnectionError")
       THEN /\ pc' = "for"
            /\ log' = Append(log, Warning(product_nr, "Invalid downloaded file"))
            /\ UNCHANGED <<exc, outcome>>
       ELSE Propagate("ConnectionError", <<>>)
    /\ UNCHANGED <<listing_exists, us_frame, site, download_date, product_nr,
                   composition_link, content, dir_exists, files>>
    /\ PureUnchanged

\* line 75 with lines 102-103: the download arrives
FileFetch ==
    /\ pc = "file"
    /\ requests' = Append(requests,
          Request("file", product_nr, composition_link, FALSE))
    /\ content' = site[product_nr].body
    /\ pc' = "parse"
    /\ UNCHANGED <<listing_exists, us_frame, site, download_date, product_nr,
                   composition_link, exc, outcome, log, dir_exists, files>>
    /\ PureUnchanged

\* lines 75-84 after the download: the body is parsed and the table exported,
\* or the exception of either step is handled
ParseExport ==
    /\ pc = "parse"
    /\ content' = <<>>
    /\ LET composition == DownloadComposition(content)
           ticker == us_frame[product_nr].Ticker
           name == FileName(ticker, download_date)
       IN  IF composition.exc # "none"
           THEN /\ IF IsValueError(composition.exc)
                   THEN /\ pc' = "for"
                        /\ log' = Append(log,
                              Warning(product_nr, "Invalid downloaded file"))
                        /\ UNCHANGED <<exc, outcome>>
                   ELSE Propagate(composition.exc, <<>>)
                /\ UNCHANGED <<dir_exists, files>>
           ELSE \/ /\ dir_exists' = TRUE
                   /\ files' = {f \in files : f.name # name}
                               \cup {[name |-> name, by |-> product_nr,
                                      table |-> composition]}
                   /\ pc' = "for"
                   /\ UNCHANGED <<exc, outcome, log>>
                \/ \* export_path.mkdir fails, line 78
                   /\ ~dir_exists
                   /\ IF IsValueError("OSError")
                      THEN /\ pc' = "for"
                           /\ log' = Append(log,
                                 Warning(product_nr, "Invalid downloaded file"))
                           /\ UNCHANGED <<exc, outcome>>
                      ELSE Propagate("OSError", <<>>)
                   /\ UNCHANGED <<dir_exists, files>>
                \/ \* composition.to_csv fails, line 81
                   /\ dir_exists' = TRUE
                   /\ IF IsValueError("OSError")
                      THEN /\ pc' = "for"
                           /\ log' = Append(log,
                                 Warning(product_nr, "Invalid downloaded file"))
                           /\ UNCHANGED <<exc, outcome>>
                      ELSE Propagate("OSError", <<>>)
                   /\ UNCHANGED files
    /\ UNCHANGED <<listing_exists, us_frame, site, download_date, product_nr,
                   composition_link, requests>>
    /\ PureUnchanged

Init ==
    /\ listing_exists \in BOOLEAN
    /\ us_frame \in (IF listing_exists THEN Listings ELSE {<<>>})
    /\ site \in [1..Len(us_frame) -> [page : BatchPages, body : BatchPayloads]]
    /\ download_date = "unset"
    /\ pc = "call"
    /\ product_nr = 0
    /\ composition_link = None
    /\ content = <<>>
    /\ exc = "none"
    /\ outcome = "running"
    /\ log = <<>>
    /\ requests = <<>>
    /\ dir_exists \in BOOLEAN
    /\ files = {}
    /\ page = <<>>
    /\ link_result = NoLinkResult
    /\ payload = <<>>
    /\ parse_result = NoParseResult

Next ==
    \/ Load
    \/ ForNext
    \/ PageFetchFails
    \/ PageFetch
    \/ CheckLink
    \/ FileFetchFails
    \/ FileFetch
    \/ ParseExport

Spec == Init /\ [][Next]_vars

-----------------------------------------------------------------------------
(* The link scan and the payload parsing on their own inputs.              *)

BatchIdle ==
    /\ listing_exists = TRUE
    /\ us_frame = <<>>
    /\ site = <<>>
    /\ download_date = "unset"
    /\ pc = "idle"
    /\ product_nr = 0
    /\ composition_link = None
    /\ content = <<>>
    /\ exc = "none"
    /\ outcome = "running"
    /\ log = <<>>
    /\ requests = <<>>
    /\ dir_exists = FALSE
    /\ files = {}

BatchUnchanged ==
    UNCHANGED <<listing_exists, us_frame, site, download_date, pc, product_nr,
                composition_link, content, exc, outcome, log, requests,
                dir_exists, files>>

InitLink ==
    /\ BatchIdle
    /\ page \in Pages
    /\ link_result = NoLinkResult
    /\ payload = <<>>
    /\ parse_result = NoParseResult

\* get_composition_download_link on the parsed page
ScanPage ==
    /\ ~link_result.done
    /\ LET r == GetCompositionDownloadLink(page)
       IN  link_result' = [done |-> TRUE, download_link |-> r.download_link,
                           warnings |-> r.warnings]
    /\ UNCHANGED <<page, payload, parse_result>>
    /\ BatchUnchanged

NextLink == ScanPage

SpecLink == InitLink /\ [][NextLink]_vars

InitParse ==
    /\ BatchIdle
    /\ page = <<>>
    /\ link_result = NoLinkResult
    /\ payload \in Payloads
    /\ parse_result = NoParseResult

\* download_composition on the response body
ParsePayload ==
    /\ ~parse_result.done
    /\ parse_result' = [done |-> TRUE, table |-> DownloadComposition(payload)]
    /\ UNCHANGED <<page, link_result, payload>>
    /\ BatchUnchanged

NextParse == ParsePayload

SpecParse == InitParse /\ [][NextParse]_vars

-----------------------------------------------------------------------------
(* Vocabulary of the properties.  These say what a page or a body is, from *)
(* its text alone, without asking the code what it made of it.             *)

HasCsv(anchor) == anchor.has_href /\ Contains(anchor.href, Csv)

CsvAnchors(pg) == {k \in 1..Len(pg) : HasCsv(pg[k])}

FirstCsv(pg) == CHOOSE k \in CsvAnchors(pg) : \A j \in CsvAnchors(pg) : k <= j

\* the page holds an anchor whose href contains "csv"
Resolvable(pg) == CsvAnchors(pg) # {}

Decodable(body) == \A i \in 1..Len(body) : body[i] # BadByte

ParsedRows(body) == CsvReader(SplitLines(body))

\* the body has the full layout: 9 preamble rows, a header row with fields,
\* data rows as wide as the header, a trailer row
FullLayout(body) ==
    /\ Decodable(body)
    /\ LET my == ParsedRows(body) IN
       /\ Len(my) >= DataStart + 1
       /\ \A i \in (DataStart + 1)..(Len(my) - 1) : Len(my[i]) = Len(my[HeaderIndex + 1])

\* the body cannot be cut into preamble, header and data at all
CannotBeSliced(body) ==
    \/ ~Decodable(body)
    \/ LET my == ParsedRows(body) IN
       \/ Len(my) <= HeaderIndex
       \/ /\ Len(my) > DataStart + 1
          /\ \E i \in (DataStart + 1)..(Len(my) - 1) : Len(my[i]) > Len(my[HeaderIndex + 1])

HasWarning(i, msg) == \E k \in 1..Len(log) : log[k] = Warning(i, msg)

HasFile(i) == \E f \in files : f.name = FileName(us_frame[i].Ticker, Today)

PageRequests(i) ==
    {k \in 1..Len(requests) : requests[k].kind = "page" /\ requests[k].product_nr = i}

FileRequests(i) ==
    {k \in 1..Len(requests) : requests[k].kind = "file" /\ requests[k].product_nr = i}

\* the run ended on a failure of the surroundings, not of the data
EnvFailed == exc \in {"FileNotFoundError", "ConnectionError", "OSError"}

\* the handling of product i is over
Handled(i) == product_nr > i \/ (product_nr = i /\ pc \in {"for", "exit"})

-----------------------------------------------------------------------------
(* C1 *)

\* C1 (as stated): when the call has finished without a failure of network or
\* disk, every product with a csv link on its page and a fully laid out body
\* has its file, and no product without a link or with a body that cannot be
\* sliced has one.
C1_FilesMatchProducts ==
    (pc = "exit" /\ ~EnvFailed) =>
        \A i \in 1..Len(us_frame) :
            /\ (Resolvable(site[i].page) /\ FullLayout(site[i].body)) => HasFile(i)
            /\ (~Resolvable(site[i].page) \/ CannotBeSliced(site[i].body)) => ~HasFile(i)

-----------------------------------------------------------------------------
(* C2 *)

\* C2 (as stated): a downloaded body that cannot be sliced gets its product a
\* warning, and when the call ends without a failure of network or disk every
\* later product has been requested.
C2_BadPayloadIsSkipped ==
    \A i \in 1..Len(us_frame) :
        ( /\ \E k \in FileRequests(i) : ~requests[k].failed
          /\ CannotBeSliced(site[i].body)
          /\ Handled(i) )
        => /\ HasWarning(i, "Invalid downloaded file")
           /\ (pc = "exit" /\ ~EnvFailed) =>
                 \A j \in (i + 1)..Len(us_frame) : PageRequests(j) # {}

-----------------------------------------------------------------------------
(* C3 *)

\* C3 (as stated): a body of 0 to 10 parsed rows makes download_composition
\* raise.
C3_ShortRaises ==
    (parse_result.done /\ Decodable(payload) /\ Len(ParsedRows(payload)) <= DataStart)
        => parse_result.table.exc # "none"

\* C3 (amended): a UTF-8 body of 0 to 9 parsed rows makes download_composition raise
\* IndexError; a body of exactly 10 parsed rows returns a table of no rows
\* whose columns are the fields of the row at index 9.
C3_ShorterThanTenRaises ==
    (parse_result.done /\ Decodable(payload)) =>
        LET my == ParsedRows(payload) IN
        /\ Len(my) <= HeaderIndex => parse_result.table.exc = "IndexError"
        /\ Len(my) = HeaderIndex + 1 =>
              /\ parse_result.table.exc = "none"
              /\ parse_result.table.rows = <<>>
              /\ parse_result.table.columns = my[HeaderIndex + 1]

C3_Witness ==
    /\ parse_result.done
    /\ Decodable(payload)
    /\ Len(ParsedRows(payload)) = HeaderIndex
    /\ parse_result.table.exc = "IndexError"

-----------------------------------------------------------------------------
(* C4 *)

\* C4: a body of 9 preamble rows, a header row, M data rows as wide as the
\* header and a trailer row gives a table of exactly the M data rows, in
\* order, under the fields of the row at index 9.
C4_LayoutGivesDataRows ==
    (parse_result.done /\ FullLayout(payload)) =>
        LET my == ParsedRows(payload)
            M == Len(my) - (DataStart + 1)
        IN  /\ parse_result.table.exc = "none"
            /\ parse_result.table.columns = my[HeaderIndex + 1]
            /\ Len(parse_result.table.rows) = M
            /\ \A k \in 1..M : parse_result.table.rows[k] = my[DataStart + k]

C4_Witness ==
    /\ parse_result.done
    /\ FullLayout(payload)
    /\ Len(ParsedRows(payload)) = DataStart + 3
    /\ Len(parse_result.table.rows) = 2
    /\ parse_result.table.rows[1] # parse_result.table.rows[2]
    /\ ParsedRows(payload)[DataStart + 3] # parse_result.table.rows[2]

-----------------------------------------------------------------------------
(* C5 *)

\* C5: the scan returns the link built from the first anchor whose href
\* contains "csv", and None when no anchor has such an href.
C5_FirstCsvAnchor ==
    link_result.done =>
        IF Resolvable(page)
        THEN link_result.download_link = Domain \o page[FirstCsv(page)].href
        ELSE link_result.download_link = None

C5_Witness ==
    /\ link_result.done
    /\ page = <<A(HrefHtml), A(HrefRelCsv2), A(HrefRelCsv)>>
    /\ link_result.download_link = Domain \o HrefRelCsv2

-----------------------------------------------------------------------------
(* C6 *)

\* C6 (as stated): a relative csv href is returned with the domain in front,
\* an href that already starts with the domain is returned as it is.
C6_NoSecondPrefix ==
    (link_result.done /\ Resolvable(page)) =>
        LET href == page[FirstCsv(page)].href IN
        link_result.download_link =
            (IF StartsWith(href, Domain) THEN href ELSE Domain \o href)

-----------------------------------------------------------------------------
(* C7 *)

\* C7: when a csv anchor follows anchors without href, its link is still
\* returned and one warning is logged for each anchor without href before it.
C7_FailingAnchorsAreSkipped ==
    (link_result.done /\ Resolvable(page)) =>
        LET first == FirstCsv(page)
            failing == {j \in 1..(first - 1) : ~page[j].has_href}
        IN  /\ link_result.download_link # None
            /\ SubSeq(link_result.download_link, Len(Domain) + 1,
                      Len(link_result.download_link)) = page[first].href
            /\ Len(link_result.warnings) = Cardinality(failing)
            /\ \A k \in 1..Len(link_result.warnings) :
                  link_result.warnings[k] = "TypeError"

C7_Witness ==
    /\ link_result.done
    /\ page = <<NoHref, NoHref, A(HrefRelCsv)>>
    /\ Len(link_result.warnings) = 2
    /\ link_result.download_link = Domain \o HrefRelCsv

-----------------------------------------------------------------------------
(* C8 *)

C8_State ==
    \A k \in 1..Len(requests) :
        requests[k].failed =>
            /\ k = Len(requests)
            /\ pc = "exit"
            /\ exc = "ConnectionError"
            /\ \A j \in (requests[k].product_nr + 1)..Len(us_frame) :
                  PageRequests(j) = {} /\ FileRequests(j) = {}
            /\ \A f \in files : f.by < requests[k].product_nr

C8_Step ==
    (Len(requests') > Len(requests) /\ requests'[Len(requests')].failed)
        => files' = files

\* C8: a failed page or file request ends the batch: it is the last request,
\* no later product is requested, the failing product and the later ones get
\* no file, and the files written before stay as they are.
C8_NetworkFailureAborts == []C8_State /\ [][C8_Step]_vars

C8_Witness ==
    /\ Len(us_frame) = 2
    /\ Len(requests) = 4
    /\ requests[4].kind = "file"
    /\ requests[4].failed
    /\ HasFile(1)
    /\ pc = "exit"

-----------------------------------------------------------------------------
(* C9 *)

\* C9 (as stated): after a run without exception every product has exactly one
\* page request followed by exactly one file request.
C9_PageThenFileForEach ==
    (pc = "exit" /\ exc = "none") =>
        \A i \in 1..Len(us_frame) :
            /\ Cardinality(PageRequests(i)) = 1
            /\ Cardinality(FileRequests(i)) = 1
            /\ \A k \in PageRequests(i) : \A l \in FileRequests(i) : k < l

\* product i has been dealt with: a warning for it, or its file
Settled(i) ==
    \/ HasWarning(i, "No composition found")
    \/ HasWarning(i, "Invalid downloaded file")
    \/ \E f \in files : f.by = i

\* C9 (amended): requests are issued in listing order; each product reached has
\* exactly one page request, directly followed by its one file request when
\* the page arrived and holds a csv link, and by none otherwise; no request
\* for a product is issued before the product before it has been dealt with.
C9_SequentialRequests ==
    /\ \A k, l \in 1..Len(requests) :
          k < l => requests[k].product_nr <= requests[l].product_nr
    /\ \A k \in 1..Len(requests) : requests[k].product_nr \in 1..product_nr
    /\ \A i \in 1..Len(us_frame) :
          /\ i < product_nr \/ (i = product_nr /\ pc # "page")
                => Cardinality(PageRequests(i)) = 1
          /\ Cardinality(PageRequests(i)) <= 1
          /\ Cardinality(FileRequests(i)) <= 1
          /\ \A l \in FileRequests(i) :
                /\ l > 1
                /\ requests[l - 1] =
                      Request("page", i, us_frame[i].URL, FALSE)
                /\ Resolvable(site[i].page)
          /\ ( /\ Handled(i)
               /\ Resolvable(site[i].page)
               /\ \E k \in PageRequests(i) : ~requests[k].failed )
                => Cardinality(FileRequests(i)) = 1
          /\ (i > 1 /\ PageRequests(i) # {}) => Settled(i - 1)

C9_Witness ==
    /\ pc = "exit"
    /\ exc = "none"
    /\ Len(us_frame) = 2
    /\ Len(requests) = 3
    /\ requests[1].product_nr = 1
    /\ requests[2].kind = "file"
    /\ requests[3].kind = "page"
    /\ requests[3].product_nr = 2

-----------------------------------------------------------------------------
(* C10 *)

\* C10: whatever fails inside the call, the caller sees it return: the
\* exception is logged and the call ends as a completed batch ends.
C10_NoExceptionEscapes ==
    /\ outcome # "raised"
    /\ pc = "exit" => outcome = "returned"
    /\ exc # "none" =>
          /\ pc = "exit"
          /\ Len(log) > 0
          /\ log[Len(log)].level = "ERROR"
          /\ log[Len(log)].msg = exc

C10_Witness ==
    /\ pc = "exit"
    /\ exc = "IndexError"
    /\ outcome = "returned"
    /\ product_nr < Len(us_frame)

====
